---- MODULE Spec2Model ----
(***************************************************************************)
(* Model of the Spotify proxy server (src/unnamed/part_000, lines 56-307): *)
(* the module-level token cache (accessToken, tokenExpiry), the function   *)
(* getSpotifyToken, the generic spotifyApiProxy and the five /api routes   *)
(* that reshape catalog responses.  Each action is the code a request      *)
(* handler runs between two suspensions (await).                           *)
(***************************************************************************)
EXTENDS Integers, Sequences, FiniteSets, TLC

\* ------------------------------------------------------------------ bounds
NumRequests == 2        \* HTTP requests served concurrently
MaxTicks    == 1        \* clock advances
MaxItems    == 2        \* items of a catalog response
MaxImages   == 3        \* image descriptors of an album
MaxArtists  == 2        \* artists of a track or album
StartTime   == 100000   \* Date.now() when the first request arrives (ms)

\* ------------------------------------------------------- program constants
BufferSeconds == 60     \* "60 second buffer"
MsPerSecond   == 1000
GenreLimit    == 12     \* data.genres.slice(0, 12)

\* --------------------------------------------------- JavaScript values
\* undefined/null is None, any other value v is Some(v).
None    == <<>>
Some(v) == <<v>>

\* JavaScript truthiness of a string-or-undefined and a number-or-undefined.
TruthyStr(o) == o # None /\ o[1] # ""
TruthyNum(o) == o # None /\ o[1] # 0

\* a || b on strings-or-undefined
OrElse(a, b) == IF TruthyStr(a) THEN a ELSE b

Requests == 1..NumRequests

\* Clock steps (ms): one second, and the 3540 s a 3600 s token stays cached.
Steps == {1000, 3540000}

\* What process.env may hold for the two credentials.
ClientIds     == {None, Some(""), Some("id")}
ClientSecrets == {None, Some(""), Some("secret")}

\* Replies of the accounts service to the client-credentials request.
Lifetimes     == {3600}
TokenFailures == {[status |-> 400, text |-> "invalid_client"],
                  [status |-> 503, text |-> "unavailable"]}

\* Statuses of failed catalog replies.
ApiFailures == {429}

Routes == {"featured-tracks", "genres", "genre-tracks", "search", "new-releases"}

\* The catalog endpoints spotifyApiProxy is called with.
Endpoints == {"featured-playlists", "playlist-tracks", "genre-seeds",
              "recommendations", "search", "new-releases"}

RouteOf(e) ==
  CASE e \in {"featured-playlists", "playlist-tracks"} -> "featured-tracks"
    [] e = "genre-seeds"     -> "genres"
    [] e = "recommendations" -> "genre-tracks"
    [] e = "search"          -> "search"
    [] e = "new-releases"    -> "new-releases"

\* First catalog endpoint a route asks for.
FirstEndpoint(rt) ==
  CASE rt = "featured-tracks" -> "featured-playlists"
    [] rt = "genres"          -> "genre-seeds"
    [] rt = "genre-tracks"    -> "recommendations"
    [] rt = "search"          -> "search"
    [] rt = "new-releases"    -> "new-releases"

\* The generic message each route's catch block answers with.
FailMessage(rt) ==
  CASE rt = "featured-tracks" -> "Failed to fetch featured tracks"
    [] rt = "genres"          -> "Failed to fetch genres"
    [] rt = "genre-tracks"    -> "Failed to fetch genre tracks"
    [] rt = "search"          -> "Search failed"
    [] rt = "new-releases"    -> "Failed to fetch new releases"

\* Values of the query parameter (genre, q) a request may carry.
QueryParams == {None, Some(""), Some("rock")}

\* req.query of a request to route rt: only two routes read a parameter.
QueriesOf(rt) == IF rt \in {"genre-tracks", "search"} THEN QueryParams ELSE {None}

VARIABLES
  clientId, clientSecret,   \* SPOTIFY_CONFIG
  accessToken, tokenExpiry, \* the token cache
  now, ticks,               \* Date.now() and the number of clock advances
  pc,                       \* per request: "idle", "token", "api", "done"
  endpoint,                 \* per request: endpoint argument of spotifyApiProxy
  callTime,                 \* per request: Date.now() when getSpotifyToken was called
  issued,                   \* accounts service: tokens issued so far
  realExpiry,               \* accounts service: instant the cached token really expires
  nresp,                    \* per request: responses sent
  recv,                     \* the message the step just taken consumed
  sent                      \* the message the step just taken sent

vars == <<clientId, clientSecret, accessToken, tokenExpiry, now, ticks, pc,
          endpoint, callTime, issued, realExpiry, nresp, recv, sent>>

config == <<clientId, clientSecret>>
cache  == <<accessToken, tokenExpiry>>
clock  == <<now, ticks>>

Nothing == [kind |-> "none"]

Init ==
  /\ clientId \in ClientIds
  /\ clientSecret \in ClientSecrets
  /\ accessToken = None
  /\ tokenExpiry = None
  /\ now = StartTime
  /\ ticks = 0
  /\ pc = [r \in Requests |-> "idle"]
  /\ endpoint = [r \in Requests |-> "none"]
  /\ callTime = [r \in Requests |-> 0]
  /\ issued = 0
  /\ realExpiry = None
  /\ nresp = [r \in Requests |-> 0]
  /\ recv = Nothing
  /\ sent = Nothing

\* ------------------------------------------------------- getSpotifyToken
\* Mutant: the comparison with the expiry is turned round.
CacheValidAfterExpiry ==
  TruthyStr(accessToken) /\ TruthyNum(tokenExpiry) /\ now > tokenExpiry[1]

\* if (accessToken && tokenExpiry && Date.now() < tokenExpiry)
CacheValid ==
  TruthyStr(accessToken) /\ TruthyNum(tokenExpiry) /\ now < tokenExpiry[1]

\* Mutant: one credential is enough (&& for ||).
CredentialsEitherConfigured == TruthyStr(clientId) \/ TruthyStr(clientSecret)

\* the negation of (!clientId || !clientSecret)
CredentialsConfigured == TruthyStr(clientId) /\ TruthyStr(clientSecret)

\* Mutant: the status of the reply is not looked at.
ResponseOkAlways(status) == TRUE

\* response.ok
ResponseOk(status) == status \in 200..299

\* Date.now() + (data.expires_in - 60) * 1000, computed at instant t
ComputeExpiry(t, expires_in) == t + (expires_in - BufferSeconds) * MsPerSecond

\* `Spotify token error: ${response.status} - ${errorText}`
TokenErrorMessage(status, text) ==
  "Spotify token error: " \o ToString(status) \o " - " \o text

\* `Spotify API error: ${response.status}`
ApiErrorMessage(status) == "Spotify API error: " \o ToString(status)

\* The n-th token the accounts service issues.
TokenValue(n) == "tok" \o ToString(n)

\* Replies the token endpoint may give to the exchange request r sent: a
\* token issued at some instant between the call and now, or a refusal.
TokenReplies(r) ==
  {[status |-> 200, text |-> "",
    access_token |-> Some(TokenValue(issued + 1)),
    expires_in |-> Some(l), issuedAt |-> t] :
      l \in Lifetimes, t \in {callTime[r], now}}
  \cup
  {[status |-> f.status, text |-> f.text, access_token |-> None,
    expires_in |-> None, issuedAt |-> now] : f \in TokenFailures}

\* ------------------------------------------------ catalog data (raw JSON)
\* Image descriptors, largest first.
ImageUrls == <<"L", "M", "S", "XS", "XXS">>
Images(n) == [i \in 1..n |-> [url |-> ImageUrls[i]]]

ArtistNames == <<"Y", "Z", "W", "V">>
Artists(n)  == [i \in 1..n |-> [name |-> ArtistNames[i]]]

\* Sequences over S of length at most n.
SeqsUpTo(S, n) == UNION {[1..k -> S] : k \in 0..n}

\* A track's or album's features that the handlers read.
AlbumShapes == {[artists |-> a, images |-> i, external_urls |-> x] :
                  a \in 1..MaxArtists, i \in 0..MaxImages, x \in BOOLEAN}
TrackShapes == {[preview |-> p, album |-> al, images |-> i, external_urls |-> x] :
                  p \in BOOLEAN, al \in BOOLEAN, i \in 0..MaxImages, x \in BOOLEAN}

ExternalUrls(present, id) ==
  IF present THEN Some([spotify |-> "https://open.spotify.com/" \o id]) ELSE None

\* The k-th album of a new-releases reply, of shape sh.
Album(k, sh) ==
  [id |-> "a" \o ToString(k), name |-> "X",
   artists |-> Artists(sh.artists), images |-> Images(sh.images),
   external_urls |-> ExternalUrls(sh.external_urls, "a" \o ToString(k)),
   release_date |-> "2020-01-01", total_tracks |-> 10]

\* The k-th track of a reply, of shape sh.
Track(k, sh) ==
  [id |-> "t" \o ToString(k), name |-> "N",
   artists |-> Artists(MaxArtists),
   album |-> IF sh.album THEN Some([name |-> "A", images |-> Images(sh.images)])
                         ELSE None,
   preview_url |-> IF sh.preview THEN Some("p" \o ToString(k)) ELSE None,
   duration_ms |-> 30000,
   external_urls |-> ExternalUrls(sh.external_urls, "t" \o ToString(k))]

UsedTrackShapes == {sh \in TrackShapes : sh.album \/ sh.images = 0}

AlbumLists == {[k \in DOMAIN s |-> Album(k, s[k])] : s \in SeqsUpTo(AlbumShapes, MaxItems)}
TrackLists == {[k \in DOMAIN s |-> Track(k, s[k])] : s \in SeqsUpTo(UsedTrackShapes, MaxItems)}

\* Playlist items wrap a track, or hold none (track: null).
PlaylistItemLists ==
  {[k \in DOMAIN s |-> [track |-> Some(s[k])]] : s \in TrackLists}
  \cup {<<[track |-> None]>>}
  \cup {<<[track |-> None], [track |-> Some(Track(2, sh))]>> : sh \in UsedTrackShapes}

PlaylistLists == {<<>>, <<[id |-> "p1"]>>}

GenreNames  == <<"acoustic", "afrobeat", "alt-rock", "ambient", "blues", "chill",
                 "classical", "country", "dance", "disco", "folk", "funk", "jazz">>
Capitalized == <<"Acoustic", "Afrobeat", "Alt-rock", "Ambient", "Blues", "Chill",
                 "Classical", "Country", "Dance", "Disco", "Folk", "Funk", "Jazz">>
GenreLists  == {SubSeq(GenreNames, 1, n) : n \in {0, 1, Len(GenreNames)}}

\* Every catalog payload within the bounds, per endpoint.
CatalogData(e) ==
  CASE e = "featured-playlists" -> PlaylistLists
    [] e = "playlist-tracks"    -> PlaylistItemLists
    [] e = "genre-seeds"        -> GenreLists
    [] e \in {"recommendations", "search"} -> TrackLists
    [] e = "new-releases"       -> AlbumLists
    [] OTHER                    -> {}

\* A few payloads per endpoint, for the runs that explore the token cache.
FullShape  == [preview |-> TRUE, album |-> TRUE, images |-> MaxImages, external_urls |-> TRUE]
MuteShape  == [preview |-> FALSE, album |-> TRUE, images |-> MaxImages, external_urls |-> TRUE]
SampleData(e) ==
  CASE e = "featured-playlists" -> PlaylistLists
    [] e = "playlist-tracks"    -> {<<[track |-> Some(Track(1, FullShape))]>>}
    [] e = "genre-seeds"        -> {SubSeq(GenreNames, 1, 1)}
    [] e \in {"recommendations", "search"} ->
         {<<Track(1, MuteShape), Track(2, FullShape)>>}
    [] e = "new-releases"       ->
         {<<Album(1, [artists |-> 1, images |-> MaxImages, external_urls |-> TRUE])>>}
    [] OTHER                    -> {}

\* ------------------------------------------------------- normalization
\* array.map(f)
Map(f(_), s) == [i \in DOMAIN s |-> f(s[i])]

\* array.join(sep)
RECURSIVE Join(_, _)
Join(s, sep) ==
  IF Len(s) = 0 THEN ""
  ELSE IF Len(s) = 1 THEN s[1]
  ELSE s[1] \o sep \o Join(Tail(s), sep)

ArtistName(artist) == artist.name

\* Mutant: only the first artist is named.
FirstArtistOnly(artists) == artists[1].name

\* artists.map(artist => artist.name).join(', ')
JoinArtists(artists) == Join(Map(ArtistName, artists), ", ")

\* images[i]?.url, i counted from 0
UrlAt(images, i) == IF i + 1 <= Len(images) THEN Some(images[i + 1].url) ELSE None

\* Mutant: the largest image is preferred.
CoverArtLargestFirst(images) ==
  OrElse(OrElse(UrlAt(images, 0), UrlAt(images, 1)), UrlAt(images, 2))

\* images[2]?.url || images[1]?.url || images[0]?.url
CoverArt(images) == OrElse(OrElse(UrlAt(images, 2), UrlAt(images, 1)), UrlAt(images, 0))

\* Mutant: the filter keeps every track.
HasPreviewAlways(track) == TRUE

\* track => track.preview_url
HasPreview(track) == TruthyStr(track.preview_url)

\* item => item.track && item.track.preview_url
ItemHasPreview(item) == item.track # None /\ HasPreview(item.track[1])

ItemTrack(item) == item.track[1]

\* x.external_urls.spotify throws a TypeError when external_urls is undefined.
Throws(x) == x.external_urls = None

\* The record the three track routes build; undefined fields are None
\* (res.json leaves them out).
NormalizeTrack(track) ==
  [id |-> track.id,
   title |-> track.name,
   artist |-> JoinArtists(track.artists),
   album |-> IF track.album = None THEN None ELSE Some(track.album[1].name),
   coverArt |-> IF track.album = None THEN None ELSE CoverArt(track.album[1].images),
   previewUrl |-> track.preview_url,
   duration |-> track.duration_ms,
   externalUrl |-> track.external_urls[1].spotify]

\* The record /api/new-releases builds.
NormalizeAlbum(album) ==
  [id |-> album.id,
   title |-> album.name,
   artist |-> JoinArtists(album.artists),
   coverArt |-> CoverArt(album.images),
   externalUrl |-> album.external_urls[1].spotify,
   releaseDate |-> album.release_date,
   totalTracks |-> album.total_tracks]

RECURSIVE IndexOf(_, _)
IndexOf(s, x) == IF s[1] = x THEN 1 ELSE 1 + IndexOf(Tail(s), x)

\* genreName.charAt(0).toUpperCase() + genreName.slice(1)
Capitalize(genreName) == Capitalized[IndexOf(GenreNames, genreName)]

\* data.genres.slice(0, 12).map((genreName, index) => ...)
NormalizeGenres(genres) ==
  LET kept == SubSeq(genres, 1, IF Len(genres) < GenreLimit THEN Len(genres) ELSE GenreLimit)
  IN [i \in DOMAIN kept |->
        [id |-> kept[i],
         name |-> Capitalize(kept[i]),
         cover |-> "https://source.unsplash.com/random/300x300/?" \o kept[i]
                   \o ",music&" \o ToString(i - 1)]]

\* What a handler answers once its last catalog reply is parsed: the
\* normalized list, or its catch block's 500 when building a record throws.
Ok(body)         == [status |-> 200, body |-> body, thrown |-> ""]
Failed(e)        == [status |-> 500, body |-> [error |-> FailMessage(RouteOf(e))],
                     thrown |-> "TypeError"]

TracksResult(e, tracks) ==
  LET kept == SelectSeq(tracks, HasPreview) IN
    IF \E i \in DOMAIN kept : Throws(kept[i]) THEN Failed(e)
    ELSE Ok(Map(NormalizeTrack, kept))

PlaylistResult(e, items) ==
  LET kept == Map(ItemTrack, SelectSeq(items, ItemHasPreview)) IN
    IF \E i \in DOMAIN kept : Throws(kept[i]) THEN Failed(e)
    ELSE Ok(Map(NormalizeTrack, kept))

ReleasesResult(e, albums) ==
  IF \E i \in DOMAIN albums : Throws(albums[i]) THEN Failed(e)
  ELSE Ok(Map(NormalizeAlbum, albums))

HandlerResult(e, data) ==
  CASE e = "playlist-tracks" -> PlaylistResult(e, data)
    [] e = "genre-seeds"     -> Ok(NormalizeGenres(data))
    [] e \in {"recommendations", "search"} -> TracksResult(e, data)
    [] e = "new-releases"    -> ReleasesResult(e, data)

\* ------------------------------------------------- steps of one request
\* res.status(status).json(body): the handler's one response.  thrown is
\* the message of the error its catch block logged, "" when there is none.
Respond(r, rt, status, body, thrown) ==
  /\ pc' = [pc EXCEPT ![r] = "done"]
  /\ endpoint' = [endpoint EXCEPT ![r] = "none"]
  /\ callTime' = [callTime EXCEPT ![r] = 0]
  /\ nresp' = [nresp EXCEPT ![r] = @ + 1]
  /\ sent' = [kind |-> "response", req |-> r, route |-> rt, status |-> status,
              body |-> body, thrown |-> thrown]

\* spotifyApiProxy after getSpotifyToken returned tok: the catalog GET is
\* sent with Authorization: Bearer tok.
SendCatalog(r, e, tok) ==
  /\ pc' = [pc EXCEPT ![r] = "api"]
  /\ endpoint' = [endpoint EXCEPT ![r] = e]
  /\ callTime' = [callTime EXCEPT ![r] = 0]
  /\ sent' = [kind |-> "catalog-get", req |-> r, endpoint |-> e, bearer |-> tok]
  /\ UNCHANGED nresp

\* getSpotifyToken on a cache miss with credentials: the POST to the token
\* endpoint is sent.
SendTokenRequest(r, e) ==
  /\ pc' = [pc EXCEPT ![r] = "token"]
  /\ endpoint' = [endpoint EXCEPT ![r] = e]
  /\ callTime' = [callTime EXCEPT ![r] = now]
  /\ sent' = [kind |-> "token-post", req |-> r]
  /\ UNCHANGED nresp

\* spotifyApiProxy(endpoint) up to its first suspension: getSpotifyToken
\* returns the cached token, throws for want of credentials, or sends the
\* credential exchange.
SpotifyApiProxy(r, e) ==
  /\ UNCHANGED <<config, cache, clock, issued, realExpiry>>
  /\ IF CacheValid
       THEN SendCatalog(r, e, accessToken)
       ELSE IF ~CredentialsConfigured
         THEN Respond(r, RouteOf(e), 500, [error |-> FailMessage(RouteOf(e))],
                      "Spotify credentials not configured")
         ELSE SendTokenRequest(r, e)

\* Mutant: /api/search does not validate q.
MissingGenreOnly(rt, q) == rt = "genre-tracks" /\ ~TruthyStr(q)

\* if (!genre) / if (!q)
MissingParam(rt, q) == rt \in {"genre-tracks", "search"} /\ ~TruthyStr(q)

ParamMessage(rt) ==
  IF rt = "genre-tracks" THEN "Genre parameter is required"
                         ELSE "Search query parameter is required"

\* A request arrives and its handler runs to its first suspension.
\* Requests are numbered in the order they arrive.
Arrive(r, rt, q) ==
  /\ pc[r] = "idle"
  /\ \A o \in Requests : o < r => pc[o] # "idle"
  /\ recv' = [kind |-> "request", req |-> r, route |-> rt, query |-> q]
  /\ IF MissingParam(rt, q)
       THEN /\ Respond(r, rt, 400, [error |-> ParamMessage(rt)], "")
            /\ UNCHANGED <<config, cache, clock, issued, realExpiry>>
       ELSE SpotifyApiProxy(r, FirstEndpoint(rt))

\* getSpotifyToken resumes with the reply of the token endpoint, then
\* spotifyApiProxy resumes with the token it returned.
TokenResponse(r, res) ==
  /\ pc[r] = "token"
  /\ recv' = [kind |-> "token-reply", req |-> r, reply |-> res, called |-> callTime[r]]
  /\ issued' = IF res.access_token = None THEN issued ELSE issued + 1
  /\ UNCHANGED <<config, clock>>
  /\ IF ~ResponseOk(res.status)
       THEN /\ Respond(r, RouteOf(endpoint[r]), 500,
                       [error |-> FailMessage(RouteOf(endpoint[r]))],
                       TokenErrorMessage(res.status, res.text))
            /\ UNCHANGED <<cache, realExpiry>>
       ELSE /\ accessToken' = res.access_token
            /\ realExpiry' = IF res.expires_in = None THEN None
                             ELSE Some(res.issuedAt + res.expires_in[1] * MsPerSecond)
            /\ tokenExpiry' = IF res.expires_in = None THEN None
                              ELSE Some(ComputeExpiry(now, res.expires_in[1]))
            /\ SendCatalog(r, endpoint[r], accessToken')

\* spotifyApiProxy resumes with the reply of the catalog API, then the
\* handler resumes with the parsed data.
CatalogResponse(r, res) ==
  /\ pc[r] = "api"
  /\ recv' = [kind |-> "catalog-reply", req |-> r, endpoint |-> endpoint[r],
              status |-> res.status, data |-> res.data]
  /\ IF ~ResponseOk(res.status)
       THEN /\ Respond(r, RouteOf(endpoint[r]), 500,
                       [error |-> FailMessage(RouteOf(endpoint[r]))],
                       ApiErrorMessage(res.status))
            /\ UNCHANGED <<config, cache, clock, issued, realExpiry>>
       ELSE IF endpoint[r] = "featured-playlists"
         THEN IF Len(res.data) = 0
                THEN /\ Respond(r, "featured-tracks", 404,
                                [error |-> "No featured playlists available"], "")
                     /\ UNCHANGED <<config, cache, clock, issued, realExpiry>>
                ELSE SpotifyApiProxy(r, "playlist-tracks")
         ELSE LET out == HandlerResult(endpoint[r], res.data) IN
                /\ Respond(r, RouteOf(endpoint[r]), out.status, out.body, out.thrown)
                /\ UNCHANGED <<config, cache, clock, issued, realExpiry>>

\* Time passes.
Tick(d) ==
  /\ ticks < MaxTicks
  /\ now' = now + d
  /\ ticks' = ticks + 1
  /\ recv' = Nothing
  /\ sent' = Nothing
  /\ UNCHANGED <<config, cache, pc, endpoint, callTime, issued, realExpiry, nresp>>

\* Replies of the catalog API to the GET request r sent.
SampleReplies(r) ==
  {[status |-> 200, data |-> d] : d \in SampleData(endpoint[r])}
  \cup {[status |-> s, data |-> None] : s \in ApiFailures}

CatalogReplies(r) ==
  {[status |-> 200, data |-> d] : d \in CatalogData(endpoint[r])}

Next ==
  \/ \E r \in Requests, rt \in Routes : \E q \in QueriesOf(rt) : Arrive(r, rt, q)
  \/ \E r \in Requests : \E res \in TokenReplies(r) : TokenResponse(r, res)
  \/ \E r \in Requests : \E res \in SampleReplies(r) : CatalogResponse(r, res)
  \/ \E d \in Steps : Tick(d)

Spec == Init /\ [][Next]_vars

\* ------------------------------------------ the handlers' normalization
\* The first request holds a fresh token and awaits the catalog's reply
\* (the state Spec reaches by Arrive then TokenResponse); the catalog then
\* replies with any payload within the bounds.
InitCatalog ==
  /\ clientId = Some("id")
  /\ clientSecret = Some("secret")
  /\ accessToken = Some(TokenValue(1))
  /\ tokenExpiry = Some(ComputeExpiry(StartTime, 3600))
  /\ now = StartTime
  /\ ticks = 0
  /\ \E rt \in Routes :
       /\ endpoint = [r \in Requests |-> IF r = 1 THEN FirstEndpoint(rt) ELSE "none"]
       /\ sent = [kind |-> "catalog-get", req |-> 1, endpoint |-> FirstEndpoint(rt),
                  bearer |-> Some(TokenValue(1))]
  /\ pc = [r \in Requests |-> IF r = 1 THEN "api" ELSE "idle"]
  /\ callTime = [r \in Requests |-> 0]
  /\ issued = 1
  /\ realExpiry = Some(StartTime + 3600 * MsPerSecond)
  /\ nresp = [r \in Requests |-> 0]
  /\ recv = [kind |-> "token-reply", req |-> 1,
             reply |-> [status |-> 200, text |-> "",
                        access_token |-> Some(TokenValue(1)),
                        expires_in |-> Some(3600), issuedAt |-> StartTime],
             called |-> StartTime]

NextCatalog ==
  \E r \in Requests : \E res \in CatalogReplies(r) : CatalogResponse(r, res)

SpecCatalog == InitCatalog /\ [][NextCatalog]_vars

\* ================================================================ claims
\* The step just taken called getSpotifyToken: a handler passed its
\* validation, or /api/featured-tracks went on to its second catalog call.
CalledGetToken ==
  \/ /\ recv.kind = "request"
     /\ ~(recv.route \in {"genre-tracks", "search"} /\ recv.query \in {None, Some("")})
  \/ /\ recv.kind = "catalog-reply"
     /\ recv.endpoint = "featured-playlists"
     /\ recv.status = 200
     /\ Len(recv.data) > 0

\* A token is cached and the current instant is strictly before its expiry.
TokenFresh == accessToken # None /\ tokenExpiry # None /\ now < tokenExpiry[1]

CredentialsAbsent ==
  clientId \in {None, Some("")} \/ clientSecret \in {None, Some("")}

\* C1: a getSpotifyToken call made while a token is cached and the clock is
\* strictly before tokenExpiry returns that very token (it is the bearer of
\* the catalog request the caller sends next), sends nothing to the token
\* endpoint and leaves accessToken and tokenExpiry as they were.
C1_CacheHit ==
  [][(TokenFresh /\ CalledGetToken') =>
       /\ sent'.kind = "catalog-get"
       /\ sent'.bearer = accessToken
       /\ accessToken' = accessToken
       /\ tokenExpiry' = tokenExpiry
       /\ issued' = issued]_vars

\* A later request, arriving a second after the token was cached, is served
\* from the cache.
C1_Witness ==
  /\ recv.kind = "request"
  /\ sent.kind = "catalog-get"
  /\ sent.bearer = Some("tok1")
  /\ ticks = 1
  /\ now < tokenExpiry[1]

\* C2 (as claimed): a successful exchange stores
\* tokenExpiry = T + (lifetime - 60 s), T the instant getSpotifyToken was called.
C2_ExpiryFromCallTime ==
  (recv.kind = "token-reply" /\ recv.reply.status = 200) =>
     tokenExpiry = Some(recv.called + (recv.reply.expires_in[1] - 60) * 1000)

\* C3 (as claimed): at most one credential exchange is in flight.
C3_OneExchangeInFlight ==
  Cardinality({r \in Requests : pc[r] = "token"}) <= 1

\* C4 (as claimed): the recorded tokenExpiry of the cached token never
\* exceeds the instant the token really expires minus 60 s.
C4_SafetyMargin ==
  (accessToken # None /\ tokenExpiry # None /\ realExpiry # None) =>
     tokenExpiry[1] <= realExpiry[1] - 60 * 1000

\* C5: when the token endpoint answers with a non-success status the call
\* fails with an error carrying that status and body, accessToken and
\* tokenExpiry are not written, and nothing of the failure is remembered: any
\* getSpotifyToken call that finds no fresh token sends a new exchange.
C5_FailedExchange ==
  [][/\ (recv'.kind = "token-reply" /\ recv'.reply.status \notin 200..299) =>
          /\ accessToken' = accessToken
          /\ tokenExpiry' = tokenExpiry
          /\ sent'.kind = "response"
          /\ sent'.status = 500
          /\ sent'.thrown = "Spotify token error: " \o ToString(recv'.reply.status)
                            \o " - " \o recv'.reply.text
     /\ (CalledGetToken' /\ ~TokenFresh /\ ~CredentialsAbsent) =>
          sent'.kind = "token-post"]_vars

\* An expired token is cached, the exchange that should replace it is
\* refused with 503, and the stale token stays.
C5_Witness ==
  /\ recv.kind = "token-reply"
  /\ recv.reply.status = 503
  /\ sent.kind = "response"
  /\ accessToken = Some("tok1")
  /\ now >= tokenExpiry[1]

\* C6: with the client id or the client secret absent nothing is ever sent
\* to the token endpoint or to the catalog API, the cache stays empty, and
\* every getSpotifyToken call fails with the configuration error.
C6_MissingCredentials ==
  CredentialsAbsent =>
    /\ sent.kind \notin {"token-post", "catalog-get"}
    /\ \A r \in Requests : pc[r] \in {"idle", "done"}
    /\ accessToken = None /\ tokenExpiry = None /\ issued = 0
    /\ CalledGetToken =>
         /\ sent.kind = "response"
         /\ sent.status = 500
         /\ sent.thrown = "Spotify credentials not configured"

C6_Witness ==
  /\ clientId = Some("id")
  /\ clientSecret = None
  /\ recv.kind = "request"
  /\ recv.route = "new-releases"
  /\ sent.kind = "response"
  /\ sent.thrown = "Spotify credentials not configured"

\* C10: /api/genre-tracks without genre answers 400 {error: "Genre
\* parameter is required"} and /api/search without q answers 400; the handler
\* sends that one response and nothing else (no token request, no catalog
\* request) and the token cache is not written.
C10_ValidationFirst ==
  [][(recv'.kind = "request" /\ recv'.route \in {"genre-tracks", "search"}
        /\ recv'.query = None) =>
       /\ sent'.kind = "response"
       /\ sent'.req = recv'.req
       /\ sent'.status = 400
       /\ recv'.route = "genre-tracks" =>
            sent'.body = [error |-> "Genre parameter is required"]
       /\ nresp'[recv'.req] = 1
       /\ pc'[recv'.req] = "done"
       /\ \A o \in Requests \ {recv'.req} : pc'[o] = pc[o] /\ nresp'[o] = nresp[o]
       /\ accessToken' = accessToken
       /\ tokenExpiry' = tokenExpiry
       /\ issued' = issued]_vars

\* /api/genre-tracks without genre is refused while a token is cached and
\* another request awaits the catalog.
C10_Witness ==
  /\ recv.kind = "request"
  /\ recv.route = "genre-tracks"
  /\ recv.query = None
  /\ sent.status = 400
  /\ accessToken # None
  /\ \E o \in Requests : pc[o] = "api"

\* ----------------------------------------------- claims on normalization
\* The step just taken parsed the catalog's reply to endpoint e and answered
\* the client.
Answered(e) ==
  /\ recv.kind = "catalog-reply"
  /\ recv.endpoint = e
  /\ recv.status = 200
  /\ sent.kind = "response"

TrackEndpoints == {"playlist-tracks", "recommendations", "search"}

\* The upstream tracks of the reply, in upstream order; a playlist item
\* may hold no track.
UpstreamTracks ==
  IF recv.endpoint = "playlist-tracks"
    THEN [i \in DOMAIN recv.data |-> recv.data[i].track]
    ELSE [i \in DOMAIN recv.data |-> Some(recv.data[i])]

\* Positions of the upstream items that have a preview audio URL.
Previewed ==
  {i \in DOMAIN UpstreamTracks :
     UpstreamTracks[i] # None /\ UpstreamTracks[i][1].preview_url \notin {None, Some("")}}

\* The k-th of them.
NthPreviewed(k) ==
  CHOOSE i \in Previewed : Cardinality({j \in Previewed : j <= i}) = k

\* Every item the handler builds a record from carries external_urls.
Complete ==
  IF recv.endpoint = "new-releases"
    THEN \A i \in DOMAIN recv.data : recv.data[i].external_urls # None
    ELSE \A i \in Previewed : UpstreamTracks[i][1].external_urls # None

\* C7: the list a track endpoint answers with holds exactly the upstream
\* items that have a preview URL, in upstream order; /api/new-releases
\* answers with one record per upstream album.
C7_PreviewFiltering ==
  /\ \A e \in TrackEndpoints :
       (Answered(e) /\ Complete) =>
         /\ sent.status = 200
         /\ Len(sent.body) = Cardinality(Previewed)
         /\ \A k \in DOMAIN sent.body :
              /\ sent.body[k].id = UpstreamTracks[NthPreviewed(k)][1].id
              /\ sent.body[k].previewUrl = UpstreamTracks[NthPreviewed(k)][1].preview_url
  /\ (Answered("new-releases") /\ Complete) =>
         /\ sent.status = 200
         /\ Len(sent.body) = Len(recv.data)
         /\ \A k \in DOMAIN sent.body : sent.body[k].id = recv.data[k].id

\* /api/search: of two upstream tracks the first has no preview and is
\* dropped, the second is kept.
C7_Witness ==
  /\ Answered("search")
  /\ Len(recv.data) = 2
  /\ recv.data[1].preview_url = None
  /\ sent.status = 200
  /\ Len(sent.body) = 1
  /\ sent.body[1].id = "t2"

\* The cover the claim selects from an image-descriptor list.
ChosenCover(images) ==
  IF Len(images) >= 3 THEN Some(images[3].url)
  ELSE IF Len(images) = 2 THEN Some(images[2].url)
  ELSE IF Len(images) = 1 THEN Some(images[1].url)
  ELSE None

\* C8: on all four endpoints a record's coverArt is the URL at index 2 of
\* the item's image list when it has 3 or more descriptors, at index 1 when
\* it has 2, at index 0 when it has 1, and absent when it has none; an empty
\* image list does not fail the request.
C8_CoverArt ==
  /\ \A e \in TrackEndpoints :
       (Answered(e) /\ Complete) =>
         /\ sent.status = 200
         /\ \A k \in DOMAIN sent.body :
              LET src == UpstreamTracks[NthPreviewed(k)][1] IN
                src.album # None =>
                  sent.body[k].coverArt = ChosenCover(src.album[1].images)
  /\ (Answered("new-releases") /\ Complete) =>
         /\ sent.status = 200
         /\ \A k \in DOMAIN sent.body :
              sent.body[k].coverArt = ChosenCover(recv.data[k].images)

\* /api/new-releases: one album has no image and its record no coverArt,
\* the other has three and its record the third.
C8_Witness ==
  /\ Answered("new-releases")
  /\ sent.status = 200
  /\ Len(recv.data) = 2
  /\ Len(recv.data[1].images) = 0
  /\ sent.body[1].coverArt = None
  /\ Len(recv.data[2].images) = 3
  /\ sent.body[2].coverArt = Some("S")

\* Artist names joined by ", " in upstream order.
RECURSIVE NamesUpTo(_, _)
NamesUpTo(artists, k) ==
  IF k = 1 THEN artists[1].name
  ELSE NamesUpTo(artists, k - 1) \o ", " \o artists[k].name

\* C9 (as claimed): an album list whose albums carry id, name, artists,
\* images, release_date and total_tracks and nothing else is answered
\* successfully, each record being {id, title, artist, coverArt,
\* releaseDate, totalTracks}.
C9_AsClaimed ==
  (Answered("new-releases") /\ Len(recv.data) >= 1
     /\ \A i \in DOMAIN recv.data : recv.data[i].external_urls = None) =>
    /\ sent.status = 200
    /\ Len(sent.body) = Len(recv.data)
    /\ \A k \in DOMAIN recv.data :
         sent.body[k] =
           [id |-> recv.data[k].id,
            title |-> recv.data[k].name,
            artist |-> NamesUpTo(recv.data[k].artists, Len(recv.data[k].artists)),
            coverArt |-> ChosenCover(recv.data[k].images),
            releaseDate |-> recv.data[k].release_date,
            totalTracks |-> recv.data[k].total_tracks]

\* C9 (amended): an album list whose albums also carry external_urls is
\* answered successfully, each record being {id, title = name, artist = the
\* names joined by ", ", coverArt = the chosen image, externalUrl =
\* external_urls.spotify, releaseDate, totalTracks unmodified}.
C9_NewReleases ==
  (Answered("new-releases")
     /\ \A i \in DOMAIN recv.data : recv.data[i].external_urls # None) =>
    /\ sent.status = 200
    /\ Len(sent.body) = Len(recv.data)
    /\ \A k \in DOMAIN recv.data :
         sent.body[k] =
           [id |-> recv.data[k].id,
            title |-> recv.data[k].name,
            artist |-> NamesUpTo(recv.data[k].artists, Len(recv.data[k].artists)),
            coverArt |-> ChosenCover(recv.data[k].images),
            externalUrl |-> recv.data[k].external_urls[1].spotify,
            releaseDate |-> recv.data[k].release_date,
            totalTracks |-> recv.data[k].total_tracks]

\* The scenario's album a1, with its link, followed by one of two artists.
C9_Witness ==
  /\ Answered("new-releases")
  /\ Len(recv.data) = 2
  /\ sent.status = 200
  /\ sent.body[1] = [id |-> "a1", title |-> "X", artist |-> "Y",
                     coverArt |-> Some("S"),
                     externalUrl |-> "https://open.spotify.com/a1",
                     releaseDate |-> "2020-01-01", totalTracks |-> 10]
  /\ sent.body[2].artist = "Y, Z"
====
